---------------------------- MODULE Spec2Model ----------------------------
(***************************************************************************)
(* Complaint intake and complaint access of the customer-review post       *)
(* application: the process-complaint edge function (inference gateway,    *)
(* identity resolution, insert, detached e-mail notification), the         *)
(* manage-complaints edge function (GET / PUT with the service-role key),  *)
(* the row-level policies of the complaints table, the user dashboard's   *)
(* direct query, the admin route of the browser application with           *)
(* NewAdminDashboard, and the table-style AdminDashboard.                  *)
(***************************************************************************)
EXTENDS Integers, Sequences, FiniteSets, TLC

VARIABLES
    complaints,   \* the complaints table, rows in insertion order
    env,          \* environment of the edge functions (Deno.env)
    sub,          \* the process-complaint request being served, or last served
    mresp,        \* the last answer of a complaint list / update request
    admins,       \* the admins table: the user ids that have a marker row
    authContext,  \* AuthContext in the browser: user, loading, isAdmin, checkingAdmin
    currentPath,  \* Router: the path of the window
    dashboard,    \* NewAdminDashboard: complaints, isLoading, selectedComplaint
    board,        \* AdminDashboard (table style): complaints, isLoading
    inflight      \* the update requests the browser sent that have not completed

\* the state of the browser and of what only the browser reads
browser == <<admins, authContext, currentPath, dashboard, board, inflight>>

vars == <<complaints, env, sub, mresp, browser>>

----------------------------------------------------------------------------
(* Bounds of the model *)

\* rows the table can hold before submissions stop being issued
MaxComplaints == 2
\* last instant of the wall clock
MaxClock == 1

----------------------------------------------------------------------------
(* Values *)

NULL == "NULL"

Users == {"u1", "u2"}

Email(u) == IF u = "u1" THEN "u1@post.example" ELSE "u2@post.example"

\* JSON values a request body can carry as complaint_text
JsUndefined == [t |-> "undefined"]
JsNull == [t |-> "null"]
JsString(s) == [t |-> "string", s |-> s]
JsNumber(n) == [t |-> "number", n |-> n]

Whitespace == {" ", "\n", "\t"}

RECURSIVE TrimStart(_)
TrimStart(s) ==
    IF s = <<>> THEN s
    ELSE IF Head(s) \in Whitespace THEN TrimStart(Tail(s)) ELSE s

RECURSIVE TrimEnd(_)
TrimEnd(s) ==
    IF s = <<>> THEN s
    ELSE IF s[Len(s)] \in Whitespace THEN TrimEnd(SubSeq(s, 1, Len(s) - 1)) ELSE s

\* the validation without the trim
trimOmitted(s) == s

\* String.prototype.trim
trim(s) == TrimEnd(TrimStart(s))

\* !v of JavaScript for the JSON values above
Falsy(v) ==
    \/ v.t \in {"undefined", "null"}
    \/ v.t = "string" /\ Len(v.s) = 0
    \/ v.t = "number" /\ v.n = 0


----------------------------------------------------------------------------
(* Inference gateway *)

RequiredKeys == {"category", "sentiment", "priority", "ai_response"}

FullPayload ==
    [category |-> "Delayed Delivery", sentiment |-> "Negative", priority |-> "High",
     ai_response |-> "We apologize", confidence_score |-> 82,
     explanation |-> "delay keywords"]

Without(p, ks) == [k \in DOMAIN p \ ks |-> p[k]]

\* a payload whose values are outside the labels and the range the
\* classifier is meant to produce
StrayPayload ==
    [FullPayload EXCEPT !.sentiment = "Angry", !.priority = "Urgent",
                        !.confidence_score = 150]

\* bodies the inference endpoint may answer with
MLPayloads ==
    {FullPayload, Without(FullPayload, {"confidence_score", "explanation"}),
     StrayPayload}
    \cup {Without(FullPayload, {k}) : k \in RequiredKeys}
    \cup {[FullPayload EXCEPT ![k] = ""] : k \in RequiredKeys}

\* what the call of the inference endpoint comes to
FetchOutcomes ==
    {[kind |-> "network"], [kind |-> "timeout"], [kind |-> "status"],
     [kind |-> "badbody"]}
    \cup {[kind |-> "payload", body |-> p] : p \in MLPayloads}

NotConfigured == [kind |-> "unconfigured"]

NotCalled == [kind |-> "none"]

\* !p.k for a text field / a numeric field of a payload
FalsyText(p, k) == k \notin DOMAIN p \/ p[k] = ""
FalsyNumber(p, k) == k \notin DOMAIN p \/ p[k] = 0

\* the validation without its last operand
getMLPredictionsUnchecked(mlServiceUrl, outcome) ==
    IF ~mlServiceUrl THEN JsNull
    ELSE IF outcome.kind \in {"network", "timeout", "status", "badbody"} THEN JsNull
    ELSE IF \/ FalsyText(outcome.body, "category")
            \/ FalsyText(outcome.body, "sentiment")
            \/ FalsyText(outcome.body, "priority")
         THEN JsNull
    ELSE outcome.body

getMLPredictions(mlServiceUrl, outcome) ==
    IF ~mlServiceUrl THEN JsNull
    ELSE IF outcome.kind \in {"network", "timeout"} THEN JsNull
    ELSE IF outcome.kind = "status" THEN JsNull
    ELSE IF outcome.kind = "badbody" THEN JsNull
    ELSE IF \/ FalsyText(outcome.body, "category")
            \/ FalsyText(outcome.body, "sentiment")
            \/ FalsyText(outcome.body, "priority")
            \/ FalsyText(outcome.body, "ai_response")
         THEN JsNull
    ELSE outcome.body

FallbackResponse ==
    "Thank you for contacting Indian Postal Department. Your complaint has been received and will be reviewed by our support team. We will get back to you within 48 hours. For urgent matters, please call our helpline."

\* the fallback without its reply text
getFallbackValuesUnanswered ==
    [category |-> "Other", sentiment |-> "Neutral", priority |-> "Low",
     ai_response |-> "",
     confidence_score |-> 50,
     explanation |-> "Using fallback values due to ML service unavailability."]

\* the fallback without a confidence score and an explanation
getFallbackValuesBare ==
    [category |-> "Other", sentiment |-> "Neutral", priority |-> "Low",
     ai_response |-> FallbackResponse]

getFallbackValues ==
    [category |-> "Other", sentiment |-> "Neutral", priority |-> "Low",
     ai_response |-> FallbackResponse,
     confidence_score |-> 50,
     explanation |-> "Using fallback values due to ML service unavailability."]

\* let mlPredictions = await getMLPredictions(..); if (!mlPredictions) fallback
Predictions(mlServiceUrl, outcome) ==
    LET mlPredictions == getMLPredictions(mlServiceUrl, outcome)
    IN  IF mlPredictions = JsNull THEN getFallbackValues ELSE mlPredictions

----------------------------------------------------------------------------
(* The complaints table *)

\* the insert with the score and the explanation passed on as they are
InsertRowVerbatim(id, now, text, pred, userId, userEmail) ==
    [id |-> id,
     complaint_text |-> text,
     category |-> pred.category,
     sentiment |-> pred.sentiment,
     priority |-> pred.priority,
     ai_response |-> pred.ai_response,
     ai_confidence_score |->
        IF "confidence_score" \in DOMAIN pred THEN pred.confidence_score ELSE 50,
     ai_explanation |->
        IF "explanation" \in DOMAIN pred THEN pred.explanation ELSE "undefined",
     status |-> "Pending",
     feedback_helpful |-> NULL,
     user_id |-> userId,
     user_email |-> userEmail,
     created_at |-> now,
     updated_at |-> now]

\* the insert of the handler before it tracked users: user_id and user_email
\* are not named and take their default
InsertRowUntracked(id, now, text, pred, userId, userEmail) ==
    [id |-> id,
     complaint_text |-> text,
     category |-> pred.category,
     sentiment |-> pred.sentiment,
     priority |-> pred.priority,
     ai_response |-> pred.ai_response,
     ai_confidence_score |->
        IF FalsyNumber(pred, "confidence_score") THEN 0 ELSE pred.confidence_score,
     ai_explanation |->
        IF FalsyText(pred, "explanation") THEN "" ELSE pred.explanation,
     status |-> "Pending",
     feedback_helpful |-> NULL,
     user_id |-> NULL,
     user_email |-> NULL,
     created_at |-> now,
     updated_at |-> now]

\* the row the intake handler inserts; the columns it does not name take
\* their defaults
InsertRow(id, now, text, pred, userId, userEmail) ==
    [id |-> id,
     complaint_text |-> text,
     category |-> pred.category,
     sentiment |-> pred.sentiment,
     priority |-> pred.priority,
     ai_response |-> pred.ai_response,
     ai_confidence_score |->
        IF FalsyNumber(pred, "confidence_score") THEN 0 ELSE pred.confidence_score,
     ai_explanation |->
        IF FalsyText(pred, "explanation") THEN "" ELSE pred.explanation,
     status |-> "Pending",
     feedback_helpful |-> NULL,
     user_id |-> userId,
     user_email |-> userEmail,
     created_at |-> now,
     updated_at |-> now]

\* the latest instant any row records
RECURSIVE Latest(_)
Latest(table) ==
    IF table = <<>> THEN 0
    ELSE LET r == table[Len(table)]
             rest == Latest(SubSeq(table, 1, Len(table) - 1))
             own == IF r.updated_at > r.created_at THEN r.updated_at ELSE r.created_at
         IN  IF own > rest THEN own ELSE rest

\* the instants now() and new Date() may read: the wall clock does not run
\* backwards, and it may not have moved since the last write
Instants(table) == Latest(table)..MaxClock

----------------------------------------------------------------------------
(* The browser before the application is opened *)

\* AuthProvider on mount: no user yet, the session is being restored
AuthInitial ==
    [user |-> NULL, loading |-> TRUE, isAdmin |-> FALSE, checkingAdmin |-> FALSE]

\* selectedComplaint when the modal is closed (null)
NoSelection == [id |-> NULL]

\* NewAdminDashboard on mount: useState([]), useState(true), useState(null)
DashboardInitial ==
    [complaints |-> <<>>, isLoading |-> TRUE, selectedComplaint |-> NoSelection]

\* AdminDashboard on mount: useState([]), useState(true)
BoardInitial == [complaints |-> <<>>, isLoading |-> TRUE]

\* no page of the application is open, and nobody is marked admin
NoBrowser ==
    /\ admins = {}
    /\ authContext = AuthInitial
    /\ currentPath = "/"
    /\ dashboard = DashboardInitial
    /\ board = BoardInitial
    /\ inflight = {}

----------------------------------------------------------------------------
(* Requests to process-complaint *)

\* request bodies: text that is no JSON, or a JSON object
BadJson == [json |-> "invalid"]
JsonObject(o) == [json |-> "object", obj |-> o]
EmptyObject == [k \in {} |-> JsNull]

\* o.k of JavaScript: undefined for a key the object does not have
Field(o, k) == IF k \in DOMAIN o THEN o[k] ELSE JsUndefined

TextValues ==
    {JsNull, JsNumber(0), JsNumber(5),
     JsString(<<>>), JsString(<<" ">>), JsString(<<"\t", "\n">>),
     JsString(<<" ", "a">>)}

Bodies ==
    {BadJson, JsonObject(EmptyObject)}
    \cup {JsonObject([complaint_text |-> v]) : v \in TextValues}

\* Authorization headers; a bearer token is a user's session token or not
Tokens == {"jwt_u1", "jwt_u2", "stale"}
TokenUser(t) == IF t = "jwt_u1" THEN "u1" ELSE IF t = "jwt_u2" THEN "u2" ELSE NULL
NoHeader == [scheme |-> "none"]
AuthHeaders ==
    {NoHeader, [scheme |-> "Basic", token |-> "stale"]}
    \cup {[scheme |-> "Bearer", token |-> t] : t \in Tokens}

\* what supabase.auth.getUser(token) resolves to
GetUserOutcomes(token) ==
    {[user |-> NULL, error |-> TRUE]}
    \cup (IF TokenUser(token) = NULL THEN {}
          ELSE {[user |-> TokenUser(token), error |-> FALSE]})

\* what the insert resolves to: the row, or an error with its message
InsertOutcomes ==
    {[ok |-> TRUE], [ok |-> FALSE, message |-> "insert failed"],
     [ok |-> FALSE, message |-> ""]}

\* what the call of the mail service comes to
EmailOutcomes == {"ok", "status", "network", "reject"}

\* responses
NoResponse == [status |-> 0]
Preflight == [status |-> 200, preflight |-> TRUE]
ErrorResponse(code, message) == [status |-> code, error |-> message]
SuccessResponse(row) == [status |-> 200, success |-> TRUE, complaint |-> row]

\* error.message || "Internal server error"
ErrorMessage(message) == IF message = "" THEN "Internal server error" ELSE message

\* a request of process-complaint: where its handler stands (pc), what it
\* holds in its locals, what the insert came to (db, rowId), where the
\* detached notification stands (notif) and the response, once returned
Idle ==
    [pc |-> "idle", body |-> BadJson, auth |-> NoHeader, userId |-> NULL,
     userEmail |-> NULL, ml |-> NotCalled, pred |-> JsNull, db |-> "none",
     notif |-> "none", rowId |-> 0, resp |-> NoResponse]

\* the handler up to its first await on a collaborator: preflight, body
\* parsing, validation, and the reading of the Authorization header
Received(method, body, auth) ==
    LET req == [Idle EXCEPT !.body = body]
        complaint_text == Field(body.obj, "complaint_text")
        answer(r) == [req EXCEPT !.pc = "done", !.resp = r]
    IN  IF method = "OPTIONS" THEN [Idle EXCEPT !.pc = "done", !.resp = Preflight]
        ELSE IF body.json = "invalid"
             THEN answer(ErrorResponse(500, "Unexpected token in JSON"))
        ELSE IF Falsy(complaint_text)
             THEN answer(ErrorResponse(400, "Complaint text is required"))
        ELSE IF complaint_text.t # "string"
             THEN answer(ErrorResponse(500, "complaint_text.trim is not a function"))
        ELSE IF Len(trim(complaint_text.s)) = 0
             THEN answer(ErrorResponse(400, "Complaint text is required"))
        ELSE IF auth.scheme = "Bearer" THEN [req EXCEPT !.pc = "auth", !.auth = auth]
        ELSE [req EXCEPT !.pc = "ml"]

ReceiveSubmission ==
    /\ sub.pc \in {"idle", "done"}
    /\ Len(complaints) < MaxComplaints
    /\ \E method \in {"OPTIONS", "POST"}, body \in Bodies, auth \in AuthHeaders :
          sub' = Received(method, body, auth)
    /\ UNCHANGED <<complaints, env, mresp, browser>>

\* an identity resolution whose failure rejects the submission
IdentifiedOrRejected(s, outcome) ==
    IF ~outcome.error /\ outcome.user # NULL
    THEN [s EXCEPT !.pc = "ml", !.userId = outcome.user, !.userEmail = Email(outcome.user)]
    ELSE [s EXCEPT !.pc = "done", !.resp = ErrorResponse(401, "Unauthorized")]

\* if (!authError && user) { userId = user.id; userEmail = user.email }
Identified(s, outcome) ==
    IF ~outcome.error /\ outcome.user # NULL
    THEN [s EXCEPT !.pc = "ml", !.userId = outcome.user, !.userEmail = Email(outcome.user)]
    ELSE [s EXCEPT !.pc = "ml"]

IdentityResolved ==
    /\ sub.pc = "auth"
    /\ \E outcome \in GetUserOutcomes(sub.auth.token) : sub' = Identified(sub, outcome)
    /\ UNCHANGED <<complaints, env, mresp, browser>>

\* the handler from the answer of the inference gateway to its insert
Inferred(s, outcome) ==
    [s EXCEPT !.pc = "insert", !.ml = outcome,
              !.pred = Predictions(env.ML_SERVICE_URL, outcome)]

\* what the inference call may come to in this environment
InferenceOutcomes == IF env.ML_SERVICE_URL THEN FetchOutcomes ELSE {NotConfigured}

InferenceResolved ==
    /\ sub.pc = "ml"
    /\ \E outcome \in InferenceOutcomes : sub' = Inferred(sub, outcome)
    /\ UNCHANGED <<complaints, env, mresp, browser>>

\* sendEmailNotification up to its fetch: nothing is sent without both settings
NotificationStarted(emailConfigured) ==
    IF ~emailConfigured THEN "skipped" ELSE "inflight"

\* a notification whose failure reaches the response
NotifiedAwaited(s, outcome) ==
    IF outcome = "ok" THEN [s EXCEPT !.notif = "sent"]
    ELSE [s EXCEPT !.notif = "failed",
                   !.resp = ErrorResponse(500, "Internal server error")]

\* sendEmailNotification from its fetch on, and the .catch of its caller:
\* every outcome is logged and nothing else
Notified(s, outcome) ==
    [s EXCEPT !.notif = CASE outcome = "ok" -> "sent"
                          [] outcome = "status" -> "refused"
                          [] outcome = "network" -> "failed"
                          [] OTHER -> "caught"]

\* a handler that notifies the admin of a failed insert as well
InsertedAnnouncing(s, outcome, row) ==
    LET served == [Idle EXCEPT !.pc = "done", !.body = s.body, !.auth = s.auth,
                               !.userId = s.userId, !.userEmail = s.userEmail,
                               !.ml = s.ml,
                               !.notif = NotificationStarted(env.EMAIL)]
    IN  IF outcome.ok
        THEN [served EXCEPT !.db = "ok", !.rowId = row.id,
                            !.resp = SuccessResponse(row)]
        ELSE [served EXCEPT !.db = "error",
                            !.resp = ErrorResponse(500, ErrorMessage(outcome.message))]

\* the handler from the answer of the insert to its response; its locals end
\* with it (body, auth, the identity resolved and ml are kept as the record
\* of what the request was)
Inserted(s, outcome, row) ==
    LET served == [Idle EXCEPT !.pc = "done", !.body = s.body, !.auth = s.auth,
                               !.userId = s.userId, !.userEmail = s.userEmail,
                               !.ml = s.ml]
    IN  IF outcome.ok
        THEN [served EXCEPT !.db = "ok", !.rowId = row.id,
                            !.notif = NotificationStarted(env.EMAIL),
                            !.resp = SuccessResponse(row)]
        ELSE [served EXCEPT !.db = "error",
                            !.resp = ErrorResponse(500, ErrorMessage(outcome.message))]

\* an insert that leaves its row behind when it fails
StoredAnyway(table, outcome, row) == Append(table, row)

\* an insert that stores its row twice
StoredTwice(table, outcome, row) ==
    IF outcome.ok THEN Append(Append(table, row), row) ELSE table

\* the table after the insert
Stored(table, outcome, row) == IF outcome.ok THEN Append(table, row) ELSE table

InsertResolved ==
    /\ sub.pc = "insert"
    /\ \E outcome \in InsertOutcomes, now \in Instants(complaints) :
          LET row == InsertRow(Len(complaints) + 1, now, sub.body.obj.complaint_text.s,
                               sub.pred, sub.userId, sub.userEmail)
          IN  /\ complaints' = Stored(complaints, outcome, row)
              /\ sub' = Inserted(sub, outcome, row)
    /\ UNCHANGED <<env, mresp, browser>>

NotificationResolved ==
    /\ sub.pc = "done"
    /\ sub.notif = "inflight"
    /\ \E outcome \in EmailOutcomes : sub' = Notified(sub, outcome)
    /\ UNCHANGED <<complaints, env, mresp, browser>>

----------------------------------------------------------------------------
(* Specification of the intake *)

Init ==
    /\ complaints = <<>>
    /\ env \in [ML_SERVICE_URL : BOOLEAN, EMAIL : BOOLEAN]
    /\ sub = Idle
    /\ mresp = [op |-> "none", caller |-> "anon", resp |-> NoResponse]
    /\ NoBrowser

Next ==
    \/ ReceiveSubmission
    \/ IdentityResolved
    \/ InferenceResolved
    \/ InsertResolved
    \/ NotificationResolved

Spec == Init /\ [][Next]_vars

----------------------------------------------------------------------------
(* Requests to manage-complaints, and the dashboard's own query *)

\* a principal is the public key ("anon"), the service key ("service") or a
\* signed-in user's session (the user)

\* the role and uid the table's policies see for a direct query
Role(principal) ==
    IF principal = "anon" THEN "anon"
    ELSE IF principal = "service" THEN "service_role" ELSE "authenticated"

\* the SELECT policies of the complaints table; the service role bypasses them
SelectPolicy(principal, row) ==
    \/ Role(principal) = "service_role"
    \/ Role(principal) = "anon"
    \/ Role(principal) = "authenticated" /\ row.user_id = principal

\* the rows with ids in I in any order
OrderingsUnordered(table, I) ==
    LET n == Cardinality(I)
        perms == {p \in [1..n -> I] : \A a, b \in 1..n : a # b => p[a] # p[b]}
    IN  {[a \in 1..n |-> table[p[a]]] : p \in perms}

\* .order("created_at", { ascending: false }) over the rows with ids in I:
\* every order of them that is descending in created_at
Orderings(table, I) ==
    LET n == Cardinality(I)
        perms == {p \in [1..n -> I] : \A a, b \in 1..n : a # b => p[a] # p[b]}
        sorted == {p \in perms : \A a, b \in 1..n :
                      a < b => table[p[a]].created_at >= table[p[b]].created_at}
    IN  {[a \in 1..n |-> table[p[a]]] : p \in sorted}

ListResponse(rows) == [status |-> 200, success |-> TRUE, complaints |-> rows]

\* the record of a request served: its method, on whose behalf it was made
\* when it was answered with rows, and the response
Answer(op, caller, resp) ==
    [op |-> op, caller |-> IF "success" \in DOMAIN resp THEN caller ELSE "anon",
     resp |-> resp]

\* who calls manage-complaints: the admin dashboard with the project's anon
\* key as bearer, the user dashboard with the signed-in user's token
Callers == {"anon"} \cup Users

\* GET: the handler's client holds the service-role key, whoever calls
ListComplaints ==
    /\ \E caller \in Callers, ok \in BOOLEAN,
          rows \in Orderings(complaints, 1..Len(complaints)) :
          mresp' = IF ok THEN Answer("GET", caller, ListResponse(rows))
                   ELSE Answer("GET", caller, ErrorResponse(500, "select failed"))
    /\ UNCHANGED <<complaints, env, sub, browser>>

\* UserDashboard.fetchUserComplaints: the signed-in user's own query of the
\* table, .eq("user_id", user.id), under the table's policies
FetchUserComplaints ==
    /\ \E user \in Users :
          LET visible == {i \in 1..Len(complaints) :
                            /\ SelectPolicy(user, complaints[i])
                            /\ complaints[i].user_id = user}
          IN  \E rows \in Orderings(complaints, visible) :
                 mresp' = Answer("SELECT", user, ListResponse(rows))
    /\ UNCHANGED <<complaints, env, sub, browser>>

\* bodies of a PUT: no JSON, or an object with any of id, status and
\* feedback_helpful (the dashboards send an id with one of the other two)
PutStatuses == {"", "Pending", "Resolved", "Closed"}
PutFeedbacks == {NULL, "true", "false"}
PutObjects ==
    {EmptyObject, [status |-> "Resolved"]}
    \cup {[id |-> i] : i \in 1..MaxComplaints}
    \cup {[id |-> i, status |-> st] : i \in 1..MaxComplaints, st \in PutStatuses}
    \cup {[id |-> i, feedback_helpful |-> fb] : i \in 1..MaxComplaints, fb \in PutFeedbacks}
    \cup {[id |-> i, status |-> "Resolved", feedback_helpful |-> "true"] :
            i \in 1..MaxComplaints}
PutBodies == {BadJson} \cup {JsonObject(o) : o \in PutObjects}

\* an update that writes status and feedback_helpful whether given or not
UpdateDataFull(o, now) ==
    [updated_at |-> now,
     status |-> IF FalsyText(o, "status") THEN "Pending" ELSE o.status,
     feedback_helpful |-> IF "feedback_helpful" \in DOMAIN o THEN o.feedback_helpful ELSE NULL]

\* an update that detaches the row from its user
UpdateDataReassigning(o, now) ==
    [updated_at |-> now, user_id |-> NULL]

\* const updateData = { updated_at }; if (status) ..; if (feedback_helpful !== undefined) ..
UpdateData(o, now) ==
    LET keys == {"updated_at"}
                \cup (IF FalsyText(o, "status") THEN {} ELSE {"status"})
                \cup (IF "feedback_helpful" \in DOMAIN o THEN {"feedback_helpful"} ELSE {})
    IN  [k \in keys |-> IF k = "updated_at" THEN now ELSE o[k]]

\* .update(updateData).eq("id", id): the row with the columns named replaced
Updated(row, updateData) ==
    [c \in DOMAIN row |-> IF c \in DOMAIN updateData THEN updateData[c] ELSE row[c]]

\* a PUT that refuses to resolve a complaint that is resolved
PutResolvingOnce(table, body, now) ==
    IF body.json = "invalid"
    THEN [table |-> table, resp |-> ErrorResponse(500, "Unexpected token in JSON")]
    ELSE IF FalsyNumber(body.obj, "id")
    THEN [table |-> table, resp |-> ErrorResponse(400, "Complaint ID is required")]
    ELSE IF body.obj.id \notin 1..Len(table)
    THEN [table |-> table,
          resp |-> ErrorResponse(500, "JSON object requested, multiple (or no) rows returned")]
    ELSE IF ~FalsyText(body.obj, "status") /\ table[body.obj.id].status = body.obj.status
    THEN [table |-> table, resp |-> ErrorResponse(409, "Already " \o body.obj.status)]
    ELSE LET row == Updated(table[body.obj.id], UpdateData(body.obj, now))
         IN  [table |-> [table EXCEPT ![body.obj.id] = row],
              resp |-> SuccessResponse(row)]

\* PUT: the table and the response it comes to
Put(table, body, now) ==
    IF body.json = "invalid"
    THEN [table |-> table, resp |-> ErrorResponse(500, "Unexpected token in JSON")]
    ELSE IF FalsyNumber(body.obj, "id")
    THEN [table |-> table, resp |-> ErrorResponse(400, "Complaint ID is required")]
    ELSE IF body.obj.id \notin 1..Len(table)
    THEN [table |-> table,
          resp |-> ErrorResponse(500, "JSON object requested, multiple (or no) rows returned")]
    ELSE LET row == Updated(table[body.obj.id], UpdateData(body.obj, now))
         IN  [table |-> [table EXCEPT ![body.obj.id] = row],
              resp |-> SuccessResponse(row)]

\* PUT, and the PUT whose update the store refuses
UpdateComplaint ==
    /\ \/ \E caller \in Callers, body \in PutBodies, now \in Instants(complaints) :
             LET put == Put(complaints, body, now)
             IN  /\ complaints' = put.table
                 /\ mresp' = Answer("PUT", caller, put.resp)
       \/ /\ complaints' = complaints
          /\ mresp' = Answer("PUT", "anon", ErrorResponse(500, "update failed"))
    /\ UNCHANGED <<env, sub, browser>>

\* OPTIONS, and the methods the handler does not serve
OtherMethod ==
    /\ \E method \in {"OPTIONS", "POST", "DELETE"} :
          mresp' = Answer(method, "anon",
                          IF method = "OPTIONS" THEN Preflight
                          ELSE ErrorResponse(405, "Method not allowed"))
    /\ UNCHANGED <<complaints, env, sub, browser>>

----------------------------------------------------------------------------
(* Specification of the access layer: whole submissions, with neither the *)
(* inference endpoint nor the mail service configured and with sessions    *)
(* that resolve, lists and updates                                         *)

\* the bodies submitted here: a complaint, and one without its text
AccessBodies == {JsonObject([complaint_text |-> JsString(<<" ", "a">>)]),
                 JsonObject(EmptyObject)}

\* the credentials submitted here: none, or a user's session token
AccessHeaders == {NoHeader} \cup {[scheme |-> "Bearer", token |-> t] : t \in {"jwt_u1", "jwt_u2"}}

\* the request after the handler's steps up to its insert, for each way the
\* inference may resolve; the session tokens submitted here are live, and
\* resolve to their users
BeforeInsert(body, auth) ==
    LET received == Received("POST", body, auth)
        identified == IF received.pc = "auth"
                      THEN {Identified(received, o) :
                              o \in {g \in GetUserOutcomes(auth.token) : ~g.error}}
                      ELSE {received}
    IN  UNION {IF s.pc = "ml" THEN {Inferred(s, o) : o \in InferenceOutcomes} ELSE {s}
               : s \in identified}

\* a submission served from its receipt to its response
SubmitComplaint ==
    /\ sub.pc \in {"idle", "done"}
    /\ Len(complaints) < MaxComplaints
    /\ \E body \in AccessBodies, auth \in AccessHeaders :
       \E s \in BeforeInsert(body, auth) :
          IF s.pc = "insert"
          THEN \E outcome \in InsertOutcomes, now \in Instants(complaints) :
                  LET row == InsertRow(Len(complaints) + 1, now,
                                       s.body.obj.complaint_text.s, s.pred,
                                       s.userId, s.userEmail)
                  IN  /\ complaints' = Stored(complaints, outcome, row)
                      /\ sub' = Inserted(s, outcome, row)
          ELSE /\ complaints' = complaints
               /\ sub' = s
    /\ UNCHANGED <<env, mresp, browser>>

InitAccess ==
    /\ complaints = <<>>
    /\ env = [ML_SERVICE_URL |-> FALSE, EMAIL |-> FALSE]
    /\ sub = Idle
    /\ mresp = [op |-> "none", caller |-> "anon", resp |-> NoResponse]
    /\ NoBrowser

NextAccess ==
    \/ SubmitComplaint
    \/ ListComplaints
    \/ FetchUserComplaints
    \/ UpdateComplaint
    \/ OtherMethod

SpecAccess == InitAccess /\ [][NextAccess]_vars

----------------------------------------------------------------------------
(* The admin route in the browser: AuthContext, Router and ProtectedRoute, *)
(* and NewAdminDashboard, which reads and writes the table with the        *)
(* signed-in user's session                                                *)

\* the route guard before the admin restriction: any signed-in user passes
ProtectedRouteEarlier(ctx, requireAdmin, children) ==
    IF ctx.loading THEN "Loading"
    ELSE IF ctx.user = NULL THEN "AuthPage"
    ELSE children

\* ProtectedRoute: the page it renders for the context, of the loading page,
\* the login page, the Access Denied page and its children
ProtectedRoute(ctx, requireAdmin, children) ==
    IF ctx.loading \/ ctx.checkingAdmin THEN "Loading"
    ELSE IF ctx.user = NULL THEN "AuthPage"
    ELSE IF requireAdmin /\ ~ctx.isAdmin THEN "AccessDenied"
    ELSE children

\* Router: /admin is the admin dashboard behind requireAdmin, every other
\* path the user dashboard
Router(path, ctx) ==
    IF path = "/admin" THEN ProtectedRoute(ctx, TRUE, "NewAdminDashboard")
    ELSE ProtectedRoute(ctx, FALSE, "UserDashboard")

Paths == {"/", "/admin"}

\* who may hold a marker row: nobody, or the first user
AdminSets == {{}, {"u1"}}

\* NewAdminDashboard is what the router renders
Mounted == Router(currentPath, authContext) = "NewAdminDashboard"

\* the component's state under a new context or path: kept while it stays
\* rendered, initial when it is rendered anew
Rendered(ctx, path) ==
    IF Router(path, ctx) = "NewAdminDashboard" THEN dashboard ELSE DashboardInitial

\* getSession answers on start: a stored session's user, or none; the admin
\* status of a user is checked next
SessionRestored ==
    /\ authContext.loading
    /\ \E u \in Users \cup {NULL} :
          authContext' = [user |-> u, loading |-> FALSE, isAdmin |-> FALSE,
                          checkingAdmin |-> u # NULL]
    /\ dashboard' = Rendered(authContext', currentPath)
    /\ UNCHANGED <<complaints, env, sub, mresp, admins, currentPath, board, inflight>>

\* a visitor signs in on the login page; the admin status is checked next
SignedIn ==
    /\ ~authContext.loading
    /\ authContext.user = NULL
    /\ \E u \in Users :
          authContext' = [user |-> u, loading |-> FALSE, isAdmin |-> FALSE,
                          checkingAdmin |-> TRUE]
    /\ dashboard' = Rendered(authContext', currentPath)
    /\ UNCHANGED <<complaints, env, sub, mresp, admins, currentPath, board, inflight>>

\* policy "Users can check their admin status": a user sees their own marker
AdminsPolicy(principal, userId) == principal = userId

\* checkAdminStatus answers: isAdmin is whether the user's marker row came
\* back; a query that fails leaves it false
AdminStatusChecked ==
    /\ authContext.checkingAdmin
    /\ \E answered \in BOOLEAN :
          authContext' =
             [authContext EXCEPT
                !.isAdmin = /\ answered
                            /\ \E a \in admins : /\ a = authContext.user
                                                 /\ AdminsPolicy(authContext.user, a),
                !.checkingAdmin = FALSE]
    /\ dashboard' = Rendered(authContext', currentPath)
    /\ UNCHANGED <<complaints, env, sub, mresp, admins, currentPath, board, inflight>>

\* signOut
SignedOut ==
    /\ authContext.user # NULL
    /\ authContext' = [AuthInitial EXCEPT !.loading = FALSE]
    /\ dashboard' = Rendered(authContext', currentPath)
    /\ UNCHANGED <<complaints, env, sub, mresp, admins, currentPath, board, inflight>>

\* pushState / popstate: setCurrentPath(window.location.pathname)
Navigate ==
    /\ \E path \in Paths \ {currentPath} : currentPath' = path
    /\ dashboard' = Rendered(authContext, currentPath')
    /\ UNCHANGED <<complaints, env, sub, mresp, admins, authContext, board, inflight>>

\* the UPDATE policies of the complaints table: a user's own rows, every row
\* for the service role, none for anon
UpdatePolicy(principal, row) ==
    \/ Role(principal) = "service_role"
    \/ Role(principal) = "authenticated" /\ row.user_id = principal

\* supabase.from("complaints").select("*").order("created_at", descending)
\* made with a principal's key or session: the rows its policies show
SelectAll(table, principal) ==
    Orderings(table, {i \in 1..Len(table) : SelectPolicy(principal, table[i])})

\* fetchComplaints: the component after the query failed (the error is
\* logged), or answered rows (setComplaints(data))
Fetched(table, principal) ==
    {[dashboard EXCEPT !.isLoading = FALSE]}
    \cup {[dashboard EXCEPT !.complaints = rows, !.isLoading = FALSE] :
            rows \in SelectAll(table, principal)}

\* useEffect(() => { fetchComplaints() }, []): the fetch of the mounted
\* component
FetchComplaints ==
    /\ Mounted
    /\ dashboard.isLoading
    /\ dashboard' \in Fetched(complaints, authContext.user)
    /\ UNCHANGED <<complaints, env, sub, mresp, admins, authContext, currentPath,
                   board, inflight>>

\* a click on a complaint of the list opens it in the modal
SelectComplaint ==
    /\ Mounted
    /\ \E k \in 1..Len(dashboard.complaints) :
          dashboard' = [dashboard EXCEPT !.selectedComplaint = dashboard.complaints[k]]
    /\ UNCHANGED <<complaints, env, sub, mresp, admins, authContext, currentPath,
                   board, inflight>>

\* the modal's close buttons
CloseModal ==
    /\ Mounted
    /\ dashboard.selectedComplaint # NoSelection
    /\ dashboard' = [dashboard EXCEPT !.selectedComplaint = NoSelection]
    /\ UNCHANGED <<complaints, env, sub, mresp, admins, authContext, currentPath,
                   board, inflight>>

\* the most update requests in flight at once
MaxRequests == 2

\* the modal after "Mark as Resolved":
\* setSelectedComplaint({ ...selectedComplaint, status: "Resolved" })
Marked(selected) == [selected EXCEPT !.status = "Resolved"]

\* "Mark as Resolved": updateComplaintStatus(selectedComplaint.id, "Resolved")
\* is started, and the modal is set to Resolved at once
MarkAsResolved ==
    /\ Mounted
    /\ dashboard.selectedComplaint # NoSelection
    /\ dashboard.selectedComplaint.status = "Pending"
    /\ Cardinality(inflight) < MaxRequests
    /\ inflight' = inflight \cup
          {[from |-> "NewAdminDashboard", id |-> dashboard.selectedComplaint.id,
            status |-> "Resolved", principal |-> authContext.user]}
    /\ dashboard' = [dashboard EXCEPT
                        !.selectedComplaint = Marked(dashboard.selectedComplaint)]
    /\ UNCHANGED <<complaints, env, sub, mresp, admins, authContext, currentPath, board>>

\* .update({ status, updated_at }).eq("id", id) with a principal's session:
\* the rows of that id its UPDATE policy admits are written, be they none
DirectUpdate(table, r, now) ==
    [i \in 1..Len(table) |->
        IF table[i].id = r.id /\ UpdatePolicy(r.principal, table[i])
        THEN Updated(table[i], [status |-> r.status, updated_at |-> now])
        ELSE table[i]]

\* updateComplaintStatus after its request answered: an error is logged; else
\* fetchComplaints() reloads the list of the component that is rendered
UpdateCompleted ==
    /\ \E r \in {q \in inflight : q.from = "NewAdminDashboard"} :
          /\ inflight' = inflight \ {r}
          /\ \/ /\ UNCHANGED <<complaints, dashboard>>
             \/ \E now \in Instants(complaints) :
                   /\ complaints' = DirectUpdate(complaints, r, now)
                   /\ IF Mounted
                      THEN dashboard' \in Fetched(complaints', authContext.user)
                      ELSE dashboard' = dashboard
    /\ UNCHANGED <<env, sub, mresp, admins, authContext, currentPath, board>>

InitAdmin ==
    /\ complaints = <<>>
    /\ env = [ML_SERVICE_URL |-> FALSE, EMAIL |-> FALSE]
    /\ sub = Idle
    /\ mresp = [op |-> "none", caller |-> "anon", resp |-> NoResponse]
    /\ admins \in AdminSets
    /\ authContext = AuthInitial
    /\ currentPath \in Paths
    /\ dashboard = DashboardInitial
    /\ board = BoardInitial
    /\ inflight = {}

NextAdmin ==
    \/ SubmitComplaint
    \/ SessionRestored
    \/ SignedIn
    \/ AdminStatusChecked
    \/ SignedOut
    \/ Navigate
    \/ FetchComplaints
    \/ SelectComplaint
    \/ CloseModal
    \/ MarkAsResolved
    \/ UpdateCompleted

SpecAdmin == InitAdmin /\ [][NextAdmin]_vars

----------------------------------------------------------------------------
(* The table-style AdminDashboard, which lists and updates complaints      *)
(* through manage-complaints and keeps its own copy of the list            *)

\* fetchComplaints on mount: GET manage-complaints, then
\* setComplaints(data.complaints) or setError
FetchBoardComplaints ==
    /\ board.isLoading
    /\ \/ board' = [board EXCEPT !.isLoading = FALSE]
       \/ \E rows \in Orderings(complaints, 1..Len(complaints)) :
             board' = [complaints |-> rows, isLoading |-> FALSE]
    /\ UNCHANGED <<complaints, env, sub, mresp, admins, authContext, currentPath,
                   dashboard, inflight>>

\* a request of the dashboard: the body it PUTs and the complaints its
\* handler closed over, those of the render the button belongs to
BoardRequest(body) ==
    [from |-> "AdminDashboard", body |-> body, closure |-> board.complaints]

\* "Mark Resolved" of a row shown Pending: updateComplaintStatus(id, "Resolved")
\* up to its fetch
StartUpdateComplaintStatus ==
    /\ Cardinality(inflight) < MaxRequests
    /\ \E k \in 1..Len(board.complaints) :
          /\ board.complaints[k].status = "Pending"
          /\ inflight' = inflight \cup
                {BoardRequest([id |-> board.complaints[k].id, status |-> "Resolved"])}
    /\ UNCHANGED <<complaints, env, sub, mresp, admins, authContext, currentPath,
                   dashboard, board>>

\* thumbs up / down of a row shown without feedback: updateFeedback(id, helpful)
\* up to its fetch
StartUpdateFeedback ==
    /\ Cardinality(inflight) < MaxRequests
    /\ \E k \in 1..Len(board.complaints), helpful \in {"true", "false"} :
          /\ board.complaints[k].feedback_helpful = NULL
          /\ inflight' = inflight \cup
                {BoardRequest([id |-> board.complaints[k].id,
                               feedback_helpful |-> helpful])}
    /\ UNCHANGED <<complaints, env, sub, mresp, admins, authContext, currentPath,
                   dashboard, board>>

\* complaints.map(c => c.id === id ? { ...c, status } : c), and the same
\* with feedback_helpful
Mapped(list, body) ==
    [k \in 1..Len(list) |->
        IF list[k].id = body.id THEN Updated(list[k], Without(body, {"id"}))
        ELSE list[k]]

\* a request of the dashboard is answered: the PUT is served; on a success
\* setComplaints(complaints.map(...)) with the complaints closed over, else
\* an alert
BoardUpdateCompleted ==
    /\ \E r \in {q \in inflight : q.from = "AdminDashboard"} :
          /\ inflight' = inflight \ {r}
          /\ \/ UNCHANGED <<complaints, board>>
             \/ \E now \in Instants(complaints) :
                   LET put == Put(complaints, JsonObject(r.body), now)
                   IN  /\ complaints' = put.table
                       /\ board' = IF put.resp.status = 200
                                   THEN [board EXCEPT
                                            !.complaints = Mapped(r.closure, r.body)]
                                   ELSE board
    /\ UNCHANGED <<env, sub, mresp, admins, authContext, currentPath, dashboard>>

InitBoard ==
    /\ complaints = <<>>
    /\ env = [ML_SERVICE_URL |-> FALSE, EMAIL |-> FALSE]
    /\ sub = Idle
    /\ mresp = [op |-> "none", caller |-> "anon", resp |-> NoResponse]
    /\ NoBrowser

NextBoard ==
    \/ SubmitComplaint
    \/ FetchBoardComplaints
    \/ StartUpdateComplaintStatus
    \/ StartUpdateFeedback
    \/ BoardUpdateCompleted

SpecBoard == InitBoard /\ [][NextBoard]_vars

----------------------------------------------------------------------------
(* Properties of the intake *)

\* the inference outcomes that count as a failed call: no endpoint configured,
\* no answer, no success status, no JSON, or a body that lacks one of the
\* four required fields or has it empty
InferenceFailed(o) ==
    \/ o.kind \in {"unconfigured", "network", "timeout", "status", "badbody"}
    \/ /\ o.kind = "payload"
       /\ \E k \in RequiredKeys : k \notin DOMAIN o.body \/ o.body[k] = ""

\* the row a served submission stored
StoredRow == complaints[sub.rowId]

\* C1: whatever the inference call came to, the handler goes on to the insert
\* without having answered, and after a failed call the prediction it holds is
\* the static fallback.
C1_InferenceNeverFailsSubmission ==
    sub.pc = "insert" =>
        /\ sub.resp = NoResponse
        /\ sub.ml # NotCalled
        /\ InferenceFailed(sub.ml) => sub.pred = getFallbackValues

C1_Witness ==
    /\ sub.pc = "insert"
    /\ sub.ml.kind = "payload"
    /\ "ai_response" \in DOMAIN sub.ml.body
    /\ sub.ml.body.ai_response = ""
    /\ sub.pred = getFallbackValues

\* C2: a submission of non-blank text whose inference call failed and whose
\* insert the store accepted is answered 200 and its stored row has category
\* Other, sentiment Neutral, priority Low, confidence 50 and status Pending;
\* a failed inference call alone never makes the answer an error.
C2_FallbackRowStored ==
    (sub.pc = "done" /\ InferenceFailed(sub.ml)) =>
        /\ sub.resp.status = 200 \/ sub.db = "error"
        /\ sub.db = "ok" =>
              /\ sub.resp.status = 200
              /\ sub.resp.complaint = StoredRow
              /\ StoredRow.category = "Other"
              /\ StoredRow.sentiment = "Neutral"
              /\ StoredRow.priority = "Low"
              /\ StoredRow.ai_confidence_score = 50
              /\ StoredRow.status = "Pending"

C2_Witness ==
    /\ sub.pc = "done"
    /\ sub.ml.kind = "timeout"
    /\ sub.resp.status = 200
    /\ StoredRow.category = "Other"
    /\ StoredRow.ai_confidence_score = 50

\* a JSON object whose complaint_text is missing, null, empty or made of
\* whitespace only
BlankSubmission(body) ==
    /\ body.json = "object"
    /\ LET v == Field(body.obj, "complaint_text")
       IN  \/ v.t \in {"undefined", "null"}
           \/ v.t = "string" /\ \A i \in 1..Len(v.s) : v.s[i] \in Whitespace

\* C3: a submission whose complaint_text is missing, empty or whitespace-only
\* is answered 400 "Complaint text is required" and the step that answers it
\* leaves the complaints table as it was.
C3_BlankTextRejected ==
    [][(sub' # sub /\ sub'.pc = "done" /\ sub'.resp # Preflight
            /\ BlankSubmission(sub'.body))
        => /\ sub'.resp = ErrorResponse(400, "Complaint text is required")
           /\ sub'.db = "none"
           /\ complaints' = complaints]_vars

C3_Witness ==
    /\ sub.pc = "done"
    /\ sub.body.json = "object"
    /\ Field(sub.body.obj, "complaint_text") = JsString(<<"\t", "\n">>)
    /\ sub.resp.status = 400
    /\ Len(complaints) = 1

\* C8: wherever the detached notification stands (not sent for want of
\* settings, in flight for ever, delivered, refused, failed, or rejected and
\* caught), a submission whose row was persisted has the 200 success response
\* carrying that row, and the row is in the table as it was inserted.
C8_NotificationDetached ==
    (sub.pc = "done" /\ sub.db = "ok") =>
        /\ sub.notif \in {"skipped", "inflight", "sent", "refused", "failed", "caught"}
        /\ sub.rowId \in 1..Len(complaints)
        /\ sub.resp = SuccessResponse(StoredRow)

C8_Witness ==
    /\ sub.pc = "done"
    /\ sub.db = "ok"
    /\ sub.notif \in {"refused", "failed", "caught"}
    /\ sub.resp.status = 200
    /\ sub.resp.complaint = StoredRow

\* C9: a submission whose insert failed is answered 500 with a non-empty error
\* message, and the step that answers it leaves the table as it was: no row
\* of that submission exists.
C9_FailedWriteIsServerError ==
    [][(sub.pc = "insert" /\ sub'.pc = "done" /\ sub'.db # "ok")
        => /\ sub'.db = "error"
           /\ sub'.resp.status = 500
           /\ sub'.resp.error # ""
           /\ sub'.rowId = 0
           /\ complaints' = complaints]_vars

C9_Witness ==
    /\ sub.pc = "done"
    /\ sub.db = "error"
    /\ sub.resp = ErrorResponse(500, "Internal server error")
    /\ Len(complaints) = 1

\* the stored row carries the payload's four required values, its score or 0
\* and its explanation or the empty string
CarriesPayload(row, body) ==
    /\ row.category = body.category
    /\ row.sentiment = body.sentiment
    /\ row.priority = body.priority
    /\ row.ai_response = body.ai_response
    /\ row.ai_confidence_score =
          (IF "confidence_score" \in DOMAIN body THEN body.confidence_score ELSE 0)
    /\ row.ai_explanation =
          (IF "explanation" \in DOMAIN body THEN body.explanation ELSE "")

\* C10 as claimed: whenever the endpoint answered with a success status and a
\* body in which the four required fields are present, the stored row carries
\* the payload.
C10_AsClaimed ==
    (/\ sub.pc = "done"
     /\ sub.db = "ok"
     /\ sub.ml.kind = "payload"
     /\ RequiredKeys \subseteq DOMAIN sub.ml.body)
        => CarriesPayload(StoredRow, sub.ml.body)

\* C10, amended: whenever the endpoint answered with a success status and a
\* body in which the four required fields are present and non-empty, the
\* stored row carries exactly those four values, the payload's score or 0 when
\* it is absent, and the payload's explanation or "" when it is absent.
C10_PayloadStoredVerbatim ==
    (/\ sub.pc = "done"
     /\ sub.db = "ok"
     /\ sub.ml.kind = "payload"
     /\ RequiredKeys \subseteq DOMAIN sub.ml.body
     /\ \A k \in RequiredKeys : sub.ml.body[k] # "")
        => CarriesPayload(StoredRow, sub.ml.body)

C10_Witness ==
    /\ sub.pc = "done"
    /\ sub.db = "ok"
    /\ sub.ml.kind = "payload"
    /\ sub.ml.body = Without(FullPayload, {"confidence_score", "explanation"})
    /\ StoredRow.category = "Delayed Delivery"
    /\ StoredRow.ai_confidence_score = 0
    /\ StoredRow.ai_explanation = ""

----------------------------------------------------------------------------
(* Properties of the access layer *)

\* the step is a PUT served on behalf of caller that named row i and was
\* answered with the row
PutServed(caller, i) ==
    /\ sub' = sub
    /\ mresp'.op = "PUT"
    /\ mresp'.caller = caller
    /\ "complaint" \in DOMAIN mresp'.resp
    /\ mresp'.resp.complaint.id = i

\* C4: a list answered on behalf of a regular user, by GET with the user's
\* token or by the user's dashboard query, holds no row whose user_id differs
\* from that user's id.
C4_ListShowsOnlyOwnRows ==
    (/\ mresp.op \in {"GET", "SELECT"}
     /\ mresp.caller \in Users
     /\ "complaints" \in DOMAIN mresp.resp)
        => \A k \in 1..Len(mresp.resp.complaints) :
              mresp.resp.complaints[k].user_id = mresp.caller

\* C5: a PUT on behalf of a regular user that names a complaint whose user_id
\* differs from the user's id is answered 403 and leaves every field of the
\* row, updated_at included, as it was.
C5_NonOwnerUpdateForbidden ==
    [][\A u \in Users : \A i \in 1..Len(complaints) :
          (PutServed(u, i) /\ complaints[i].user_id # u)
              => /\ mresp'.resp.status = 403
                 /\ complaints'[i] = complaints[i]]_vars

\* C6: the status of every complaint is Pending or Resolved, and the only
\* change of a complaint's status in any step is from Pending to Resolved.
C6_StatusOnlyPendingToResolved ==
    [][/\ \A i \in 1..Len(complaints') :
             complaints'[i].status \in {"Pending", "Resolved"}
       /\ \A i \in 1..Len(complaints) :
             complaints'[i].status # complaints[i].status
                 => /\ complaints[i].status = "Pending"
                    /\ complaints'[i].status = "Resolved"]_vars

\* C7: every change of a complaint's feedback_helpful in any step is from
\* null to true or false; a value that is not null never becomes null again.
C7_FeedbackOnlyFromNull ==
    [][\A i \in 1..Len(complaints) :
          complaints'[i].feedback_helpful # complaints[i].feedback_helpful
              => /\ complaints[i].feedback_helpful = NULL
                 /\ complaints'[i].feedback_helpful \in {"true", "false"}]_vars

----------------------------------------------------------------------------
(* Properties of the intake: the complaint returned and its identity *)

\* C11: whenever a submission is answered with a complaint, whatever its text
\* and whatever the inference call came to, the complaint has status Pending,
\* feedback_helpful null and non-empty category, sentiment, priority and
\* ai_response, and its text is the non-blank text submitted.
C11_ReturnedComplaintWellFormed ==
    (sub.pc = "done" /\ "complaint" \in DOMAIN sub.resp) =>
        /\ sub.db = "ok"
        /\ ~BlankSubmission(sub.body)
        /\ sub.resp.complaint.complaint_text = sub.body.obj.complaint_text.s
        /\ sub.resp.complaint.status = "Pending"
        /\ sub.resp.complaint.feedback_helpful = NULL
        /\ \A k \in RequiredKeys : sub.resp.complaint[k] # ""

C11_Witness ==
    /\ sub.pc = "done"
    /\ "complaint" \in DOMAIN sub.resp
    /\ sub.ml.kind = "badbody"
    /\ sub.resp.complaint.status = "Pending"
    /\ sub.resp.complaint.ai_response = FallbackResponse

\* C12: the resolution of a bearer credential never answers the request,
\* whatever it comes to, and a submission whose bearer credential resolved to
\* no identity ends in an error only if its insert failed; when the store
\* accepts the insert it is answered 200 and its row has user_id and
\* user_email null.
C12_UnresolvedCredentialIsAnonymous ==
    [][/\ sub.pc = "auth" => (sub'.pc = "ml" /\ sub'.resp = NoResponse)
       /\ (/\ sub'.pc = "done"
           /\ sub'.auth.scheme = "Bearer"
           /\ sub'.userId = NULL)
            => /\ sub'.db \in {"ok", "error"}
               /\ sub'.db = "ok" =>
                     /\ sub'.resp.status = 200
                     /\ complaints'[sub'.rowId].user_id = NULL
                     /\ complaints'[sub'.rowId].user_email = NULL
                     /\ sub'.resp.complaint = complaints'[sub'.rowId]]_vars

C12_Witness ==
    /\ sub.pc = "done"
    /\ sub.auth = [scheme |-> "Bearer", token |-> "stale"]
    /\ sub.db = "ok"
    /\ sub.resp.status = 200
    /\ StoredRow.user_id = NULL
    /\ StoredRow.user_email = NULL

----------------------------------------------------------------------------
(* Properties of the access layer: identity, lists and updates *)

\* the step serves a submission whose row the store accepted
SubmissionStored ==
    /\ Len(complaints') = Len(complaints) + 1
    /\ sub'.pc = "done"
    /\ sub'.db = "ok"
    /\ sub'.rowId = Len(complaints')

\* the step answers a list made on behalf of user u with rows
ListedFor(u) ==
    /\ complaints' = complaints
    /\ sub' = sub
    /\ mresp'.op \in {"GET", "SELECT"}
    /\ mresp'.caller = u
    /\ "complaints" \in DOMAIN mresp'.resp

\* C13: a submission stored with a credential that resolved to a user has
\* that user's id and e-mail as user_id and user_email, one stored without a
\* credential has both null; and every list answered on behalf of a user holds
\* every row whose user_id is that user's.
C13_IdentityStoredAndListed ==
    [][/\ SubmissionStored =>
            LET row == complaints'[sub'.rowId]
            IN  /\ sub'.auth.scheme = "Bearer" =>
                      /\ sub'.userId = TokenUser(sub'.auth.token)
                      /\ row.user_id = TokenUser(sub'.auth.token)
                      /\ row.user_email = Email(TokenUser(sub'.auth.token))
                /\ sub'.auth = NoHeader =>
                      /\ row.user_id = NULL
                      /\ row.user_email = NULL
       /\ \A u \in Users : ListedFor(u) =>
            \A i \in 1..Len(complaints) :
                complaints[i].user_id = u =>
                    \E k \in 1..Len(mresp'.resp.complaints) :
                        mresp'.resp.complaints[k] = complaints[i]]_vars

C13_Witness ==
    /\ Len(complaints) = 2
    /\ complaints[1].user_id = "u1"
    /\ complaints[1].user_email = Email("u1")
    /\ complaints[2].user_id = NULL
    /\ sub.auth = NoHeader
    /\ mresp.op = "SELECT"
    /\ mresp.caller = "u1"
    /\ mresp.resp.complaints = <<complaints[1]>>

\* the step answers a GET with rows
Listed ==
    /\ complaints' = complaints
    /\ sub' = sub
    /\ mresp'.op = "GET"
    /\ "complaints" \in DOMAIN mresp'.resp

\* C14: a GET answered with rows, which the handler reads with the service
\* key for whoever calls (the admin dashboard among them), holds every row of
\* the table exactly once, in descending order of created_at.
C14_ListHoldsEveryRowNewestFirst ==
    [][Listed =>
        LET rows == mresp'.resp.complaints
        IN  /\ Len(rows) = Len(complaints)
            /\ \A i \in 1..Len(complaints) :
                  Cardinality({k \in 1..Len(rows) : rows[k] = complaints[i]}) = 1
            /\ \A a, b \in 1..Len(rows) :
                  a < b => rows[a].created_at >= rows[b].created_at]_vars

C14_Witness ==
    /\ mresp.op = "GET"
    /\ mresp.caller = "anon"
    /\ "complaints" \in DOMAIN mresp.resp
    /\ Len(complaints) = 2
    /\ mresp.resp.complaints = <<complaints[2], complaints[1]>>
    /\ complaints[2].created_at > complaints[1].created_at

\* the PUT bodies that name a row of the table, and those that name none
PutsOfRows == {o \in PutObjects : "id" \in DOMAIN o /\ o.id \in 1..Len(complaints)}
PutsOfNoRow == {o \in PutObjects : "id" \in DOMAIN o /\ o.id \notin 1..Len(complaints)}

\* the step is the PUT of object o at instant now
PutStep(o, now) ==
    /\ sub' = sub
    /\ mresp'.op = "PUT"
    /\ complaints' = Put(complaints, JsonObject(o), now).table
    /\ mresp'.resp = Put(complaints, JsonObject(o), now).resp

\* C15: a PUT whose id matches no complaint is answered 404 and changes no
\* row of the table.
C15_UnknownIdIsNotFound ==
    [][\A o \in PutsOfNoRow : \A now \in Instants(complaints) :
          PutStep(o, now) => (mresp'.resp.status = 404 /\ complaints' = complaints)]_vars

\* what a PUT of object o at instant now leaves of the partial update: the
\* answer is 200 with the updated row, a column the body does not carry keeps
\* its value, and no other row changes
PartialUpdate(o, now) ==
    LET put == Put(complaints, JsonObject(o), now)
        old == complaints[o.id]
        new == put.table[o.id]
    IN  /\ put.resp = SuccessResponse(new)
        /\ "status" \notin DOMAIN o => new.status = old.status
        /\ "feedback_helpful" \notin DOMAIN o => new.feedback_helpful = old.feedback_helpful
        /\ \A j \in 1..Len(complaints) : j # o.id => put.table[j] = complaints[j]

Settled(row) == [c \in DOMAIN row \ {"updated_at"} |-> row[c]]

\* C17: in every reachable table, a PUT of { id, status: "Resolved" } on a row
\* followed by the same PUT succeeds both times, and the row after the second
\* equals the row after the first in every column other than updated_at.
C17_ResolvingTwiceIsIdempotent ==
    \A i \in 1..Len(complaints) : \A now \in Instants(complaints) :
        LET resolve == JsonObject([id |-> i, status |-> "Resolved"])
            first == Put(complaints, resolve, now)
        IN  /\ first.resp.status = 200
            /\ first.table[i].status = "Resolved"
            /\ \A again \in Instants(first.table) :
                  LET second == Put(first.table, resolve, again)
                  IN  /\ second.resp.status = 200
                      /\ Settled(second.table[i]) = Settled(first.table[i])
                      /\ \A j \in 1..Len(complaints) :
                            j # i => second.table[j] = first.table[j]

C17_Witness ==
    /\ Len(complaints) = 1
    /\ complaints[1].status = "Resolved"
    /\ complaints[1].created_at = 0
    /\ complaints[1].updated_at = MaxClock
    /\ mresp.op = "PUT"
    /\ mresp.resp = SuccessResponse(complaints[1])
    /\ Put(complaints, JsonObject([id |-> 1, status |-> "Resolved"]), MaxClock).table
          = complaints

\* the columns no update writes
Immutable ==
    {"id", "complaint_text", "category", "sentiment", "priority", "ai_response",
     "ai_confidence_score", "ai_explanation", "user_id", "user_email", "created_at"}

\* C18: no step changes the user_id of a row, nor its id, complaint_text,
\* category, sentiment, priority, ai_response, ai_confidence_score,
\* ai_explanation, user_email or created_at: an update writes only status,
\* feedback_helpful and updated_at.
C18_UpdateLeavesIdentityAlone ==
    [][\A i \in 1..Len(complaints) : \A c \in Immutable :
          complaints'[i][c] = complaints[i][c]]_vars

C18_Witness ==
    /\ Len(complaints) = 1
    /\ complaints[1].user_id = "u2"
    /\ complaints[1].status = "Closed"
    /\ complaints[1].feedback_helpful = "false"
    /\ mresp.op = "PUT"
    /\ mresp.caller = "u1"
    /\ mresp.resp = SuccessResponse(complaints[1])

\* C19: a step adds a row exactly when it serves a submission whose insert the
\* store accepted, and then exactly one, with an id no row had; no step removes
\* a row or changes the id of one.
C19_OneRowPerStoredSubmission ==
    [][/\ Len(complaints') =
            Len(complaints) + (IF SubmissionStored THEN 1 ELSE 0)
       /\ \A i \in 1..Len(complaints) : complaints'[i].id = complaints[i].id
       /\ \A i \in 1..Len(complaints') : \A j \in 1..Len(complaints') :
            complaints'[i].id = complaints'[j].id => i = j
       /\ (sub' # sub /\ sub'.pc = "done" /\ sub'.db # "ok")
            => complaints' = complaints]_vars

C19_Witness ==
    /\ Len(complaints) = 2
    /\ complaints[1].id # complaints[2].id
    /\ sub.pc = "done"
    /\ sub.db = "ok"
    /\ sub.rowId = 2
    /\ mresp.op = "PUT"
    /\ mresp.resp = SuccessResponse(complaints[1])

----------------------------------------------------------------------------
(* Properties of the intake: its error responses *)

\* C20: every error response of a submission is either 400 for a text that is
\* missing or blank, or 500 for an insert the store refused.
C20_OnlyInvalidInputAndPersistenceErrors ==
    (sub.pc = "done" /\ "error" \in DOMAIN sub.resp) =>
        \/ sub.resp.status = 400 /\ BlankSubmission(sub.body)
        \/ sub.resp.status = 500 /\ sub.db = "error"

\* C25: every row the intake handler stores has sentiment Positive, Neutral
\* or Negative, priority High, Medium or Low, and ai_confidence_score an
\* integer from 0 to 100, whatever payload the inference endpoint answered.
C25_StoredLabelsAndScoreInRange ==
    (sub.pc = "done" /\ sub.db = "ok") =>
        /\ StoredRow.sentiment \in {"Positive", "Neutral", "Negative"}
        /\ StoredRow.priority \in {"High", "Medium", "Low"}
        /\ StoredRow.ai_confidence_score \in 0..100

\* where a notification that was attempted may stand
Attempted == {"skipped", "inflight", "sent", "refused", "failed", "caught"}

\* C28: the notification of a submission is attempted only in the step that
\* answers it after its row was stored, and once: afterwards it only ends, and
\* a submission answered 400 or 500 has none.
C28_NotificationOnceAfterInsert ==
    [][/\ (sub'.notif # sub.notif /\ sub'.notif \in {"skipped", "inflight"})
            => /\ sub.pc = "insert"
               /\ sub.notif = "none"
               /\ sub'.db = "ok"
               /\ sub'.rowId = Len(complaints')
               /\ Len(complaints') = Len(complaints) + 1
       /\ (sub'.notif # sub.notif /\ sub'.notif \in Attempted \ {"skipped", "inflight"})
            => /\ sub.notif = "inflight"
               /\ sub' = [sub EXCEPT !.notif = sub'.notif]
               /\ complaints' = complaints
       /\ (sub'.pc = "done" /\ sub'.resp.status \in {400, 500})
            => sub'.notif = "none"]_vars

C28_Witness ==
    /\ sub.pc = "done"
    /\ sub.db = "ok"
    /\ sub.notif = "sent"
    /\ env.EMAIL
    /\ Len(complaints) = 2
    /\ sub.rowId = 2

\* two requests for row i, one carrying only a status and one only a
\* feedback, and the row after both UPDATE statements ran, in either order
StatusOnly(i, st) == JsonObject([id |-> i, status |-> st])
FeedbackOnly(i, fb) == JsonObject([id |-> i, feedback_helpful |-> fb])
StatusThenFeedback(i, st, fb, t1, t2) ==
    Put(Put(complaints, StatusOnly(i, st), t1).table, FeedbackOnly(i, fb), t2).table[i]
FeedbackThenStatus(i, st, fb, t1, t2) ==
    Put(Put(complaints, FeedbackOnly(i, fb), t1).table, StatusOnly(i, st), t2).table[i]

C22_AnonymousNeverReachesOwnedRows ==
    /\ (mresp.caller = "anon" /\ mresp.op = "GET" /\ "complaints" \in DOMAIN mresp.resp)
          => \A k \in 1..Len(mresp.resp.complaints) :
                mresp.resp.complaints[k].user_id = NULL
    /\ (mresp.caller = "anon" /\ mresp.op = "PUT" /\ "complaint" \in DOMAIN mresp.resp)
          => mresp.resp.complaint.user_id = NULL
    /\ \A i \in 1..Len(complaints) :
          complaints[i].user_id # NULL => ~SelectPolicy("anon", complaints[i])

\* the last answer was a GET answered with the rows the table holds now
ListedBefore ==
    /\ mresp.op = "GET"
    /\ "complaints" \in DOMAIN mresp.resp
    /\ Len(mresp.resp.complaints) = Len(complaints)
    /\ \A i \in 1..Len(complaints) :
          \E k \in 1..Len(complaints) : mresp.resp.complaints[k] = complaints[i]

\* C26: a GET that follows a GET over an unchanged table returns the rows in
\* the same order, rows of equal created_at included.
C26_TiesListedInAFixedOrder ==
    [][(ListedBefore /\ Listed) => mresp'.resp.complaints = mresp.resp.complaints]_vars

----------------------------------------------------------------------------
(* The intake under its scheduling: the inference call ends by its answer   *)
(* or by AbortSignal.timeout, and the store answers the insert; nothing     *)
(* bounds supabase.auth.getUser or the detached notification                *)

SpecLive ==
    /\ Init
    /\ [][Next]_vars
    /\ WF_vars(InferenceResolved)
    /\ WF_vars(InsertResolved)

\* a submission of non-blank text is being served / has been answered
InFlight == sub.pc \in {"auth", "ml", "insert"}
Answered == sub.pc = "done" /\ sub.resp # NoResponse

\* C21: every submission of non-blank text is eventually answered, whenever
\* the inference call ends (by its answer or its timeout) and the store
\* answers the insert, whatever else does not answer.
C21_SubmissionEventuallyAnswered == InFlight ~> Answered

----------------------------------------------------------------------------
(* Properties of the admin route and of NewAdminDashboard *)

\* the page the router renders
Page == Router(currentPath, authContext)

\* C23 as claimed: the admin route renders the admin dashboard only for a
\* signed-in user with neither loading nor checkingAdmin set, isAdmin set and
\* a marker row; a signed-in user without a marker always gets Access Denied,
\* and a signed-out visitor the login page.
C23_AsClaimed ==
    /\ Page = "NewAdminDashboard" =>
          /\ authContext.user # NULL
          /\ ~authContext.loading /\ ~authContext.checkingAdmin
          /\ authContext.isAdmin
          /\ authContext.user \in admins
    /\ (currentPath = "/admin" /\ authContext.user # NULL
          /\ authContext.user \notin admins) => Page = "AccessDenied"
    /\ (currentPath = "/admin" /\ authContext.user = NULL) => Page = "AuthPage"

\* C23, amended: the admin route renders the admin dashboard only for a
\* signed-in user with neither loading nor checkingAdmin set, isAdmin set and
\* a marker row; once neither loading nor checkingAdmin is set, a signed-in
\* user without a marker gets Access Denied and a signed-out visitor the
\* login page, and until then both get the loading page.
C23_AdminRouteGated ==
    /\ Page = "NewAdminDashboard" =>
          /\ authContext.user # NULL
          /\ ~authContext.loading /\ ~authContext.checkingAdmin
          /\ authContext.isAdmin
          /\ authContext.user \in admins
    /\ currentPath = "/admin" =>
          IF authContext.loading \/ authContext.checkingAdmin
          THEN Page = "Loading"
          ELSE /\ (authContext.user # NULL /\ authContext.user \notin admins)
                     => Page = "AccessDenied"
               /\ authContext.user = NULL => Page = "AuthPage"

C23_Witness ==
    /\ currentPath = "/admin"
    /\ authContext.user = "u2"
    /\ admins = {"u1"}
    /\ ~authContext.checkingAdmin
    /\ Page = "AccessDenied"

\* C24: when the admin dashboard rendered for an admin-marked user loads its
\* list, the list holds every complaint of the table, those of other users
\* and those of no user included.
C24_AdminLoadsEveryComplaint ==
    [][(/\ Router(currentPath', authContext') = "NewAdminDashboard"
        /\ authContext'.user \in admins
        /\ dashboard'.complaints # dashboard.complaints)
          => \A i \in 1..Len(complaints') :
                \E k \in 1..Len(dashboard'.complaints) :
                   dashboard'.complaints[k] = complaints'[i]]_vars

\* the update request of "Mark as Resolved" for the complaint in the modal
\* has not completed
Resolving ==
    \E r \in inflight :
       r.from = "NewAdminDashboard" /\ r.id = dashboard.selectedComplaint.id

\* C30: once the update request of "Mark as Resolved" has completed, the
\* modal shows the complaint as Resolved only if its stored status is
\* Resolved.
C30_ModalResolvedOnlyIfStored ==
    (/\ Mounted
     /\ dashboard.selectedComplaint # NoSelection
     /\ dashboard.selectedComplaint.status = "Resolved"
     /\ ~Resolving)
      => complaints[dashboard.selectedComplaint.id].status = "Resolved"

----------------------------------------------------------------------------
(* Properties of the table-style AdminDashboard *)

\* C29: once every update request of the dashboard has completed, each
\* complaint of its list shows the status and the feedback the table stores
\* for it.
C29_LocalListAgreesWithStore ==
    (\A r \in inflight : r.from # "AdminDashboard") =>
        \A k \in 1..Len(board.complaints) :
           LET shown == board.complaints[k]
           IN  /\ shown.status = complaints[shown.id].status
               /\ shown.feedback_helpful = complaints[shown.id].feedback_helpful

=============================================================================
